---- MODULE Spec2Model ----
(***************************************************************************)
(* Model of jsonlogfmt.JSONMapFormatter (src/jsonlogfmt.py).               *)
(*                                                                         *)
(* One formatter instance is constructed (Init) and then receives a        *)
(* bounded number of format(record) calls.  A call is modelled step by     *)
(* step in program order: prep_aux, the merge at the head of generate_msg, *)
(* the recursive _msg_filler walk (one schema entry per step, with an      *)
(* explicit call stack), the two _set_extra placements, the exception      *)
(* substitution, json.dumps and the hand-over to Formatter.format.         *)
(*                                                                         *)
(* Data representation.  A Python value is a record [k, v]: k is the kind  *)
(* ("scalar", "tuple", "list", "dict", "map", "exc", "none", "json") and v *)
(* the payload.  A nested mapping (self.msg) is kept flat: a function from *)
(* key paths (sequences of keys) to values, where an interior mapping is   *)
(* the path mapped to DICT and its entries are the paths that extend it.   *)
(* self.null is the default '' ; `item is self.null` is equality with it.  *)
(***************************************************************************)
EXTENDS Integers, Sequences, FiniteSets, TLC

\* ---------------------------------------------------------------- bounds
MaxArgs == 2
MaxCalls == 2

\* ---------------------------------------------------------------- values
Scalar(s) == [k |-> "scalar", v |-> s]
TupleV(s) == [k |-> "tuple", v |-> s]
ListV(s) == [k |-> "list", v |-> s]
MapV(f) == [k |-> "map", v |-> f]
DICT == [k |-> "dict", v |-> ""]
None == [k |-> "none", v |-> ""]
ExcInfo(t, a) == [k |-> "exc", v |-> [type |-> t, args |-> a]]

EmptyMap == [x \in {} |-> None]

\* dict.update(): entries of e replace entries of d
Update(d, e) == [x \in (DOMAIN d) \cup (DOMAIN e) |-> IF x \in DOMAIN e THEN e[x] ELSE d[x]]

\* ---------------------------------------------------------------- configuration
\* self.null, constructor default
null == Scalar("")

AUXMAP == [time |-> "time", exctype |-> "exctype", excvalue |-> "excvalue", exctrace |-> "exctrace"]

\* constructor called with auxmap={}
auxmap == AUXMAP

\* constructor default argskey
argskey == <<"args">>

Leaf(key) == [key |-> key, leaf |-> TRUE, sub |-> <<>>]
Node(key, sub) == [key |-> key, leaf |-> FALSE, sub |-> sub]

\* schemas handed to the constructor as jsonmap
JsonDefault == << Leaf("time"), Leaf("msg"),
                  Node("extra", << Leaf("user"),
                                   Node("exception", << Leaf("exctype"), Leaf("excvalue") >>) >>) >>
JsonExtraLeaf == << Leaf("msg"), Leaf("user"), Leaf("extra") >>
JsonNestedMsg == << Node("meta", << Leaf("user"), Node("info", << Leaf("msg") >>) >>), Leaf("time") >>
JsonMaps == {JsonDefault, JsonExtraLeaf, JsonNestedMsg}

\* remap tables handed to the constructor (None is the empty table)
RemapNone == EmptyMap
RemapSome == [x \in {"user", "msg"} |-> IF x = "user" THEN "info" ELSE "time"]
Remaps == {RemapNone, RemapSome}

ExtraKeys == { <<"extra", "data">>, <<"extra">> }

\* ---------------------------------------------------------------- records
ArgMapUser == MapV([x \in {"user"} |-> Scalar("u1")])
ArgMapTime == MapV([x \in {"time"} |-> Scalar("t2")])
ArgMapNull == MapV([x \in {"time", "user"} |-> null])
ArgMaps == {ArgMapUser, ArgMapTime, ArgMapNull}
ArgItems == ArgMaps \cup {Scalar("p1")}

RECURSIVE SeqsUpTo(_, _)
SeqsUpTo(S, n) ==
    IF n = 0 THEN { <<>> }
    ELSE LET shorter == SeqsUpTo(S, n - 1)
         IN shorter \cup { Append(s, x) : s \in {t \in shorter : Len(t) = n - 1}, x \in S }

\* record.args: one mapping (LogRecord unwraps a sole non-empty dict argument,
\* so no 1-tuple holding a mapping reaches the formatter) or a tuple
RecordArgs ==
    ArgMaps \cup { TupleV(s) : s \in {t \in SeqsUpTo(ArgItems, MaxArgs) :
                                        ~(Len(t) = 1 /\ t[1].k = "map")} }

ExcInfos == {None, ExcInfo("ValueError", <<>>), ExcInfo("ValueError", <<"boom">>)}

Records == [msg : {Scalar("hello"), null}, levelname : {Scalar("INFO")},
            args : RecordArgs, exc_info : ExcInfos]

\* no call in progress
NoRecord == [msg |-> null, levelname |-> Scalar("INFO"), args |-> TupleV(<<>>), exc_info |-> None]

\* record.__dict__
RecordDict(r) == [x \in {"msg", "levelname", "args", "exc_info"} |->
                    CASE x = "msg" -> r.msg
                      [] x = "levelname" -> r.levelname
                      [] x = "args" -> r.args
                      [] OTHER -> r.exc_info]

\* ---------------------------------------------------------------- state
VARIABLES jsonmap, remap, strip, extrakeys, msg, aux, record, extramsg, stack, pc, calls

vars == <<jsonmap, remap, strip, extrakeys, msg, aux, record, extramsg, stack, pc, calls>>
config == <<jsonmap, remap, strip, extrakeys>>

\* ---------------------------------------------------------------- nested-mapping helpers
IsPrefix(p, q) == Len(p) <= Len(q) /\ SubSeq(q, 1, Len(p)) = p

Below(m, p) == {q \in DOMAIN m : IsPrefix(p, q) /\ q # p}

\* del m[p]
DelNode(m, p) == [q \in {r \in DOMAIN m : ~IsPrefix(p, r)} |-> m[q]]

\* m[p] = value, value a mapping with entries kids (or no entries)
Assign(m, p, value, kids) ==
    LET kept == {r \in DOMAIN m : ~IsPrefix(p, r)}
        new == {p} \cup {Append(p, c) : c \in DOMAIN kids}
    IN [q \in kept \cup new |->
          IF q = p THEN value
          ELSE IF q \in new THEN kids[q[Len(q)]]
          ELSE m[q]]

\* is the object at path x a mapping (has setdefault)
IsMapping(m, x) == x = <<>> \/ (x \in DOMAIN m /\ m[x].k = "dict")

\* ---------------------------------------------------------------- _set_extra
\* reduce(lambda x, key: x.setdefault(key, value), ks, x)
RECURSIVE Walk(_, _, _, _, _)
Walk(m, x, ks, value, kids) ==
    IF ks = <<>> THEN [raised |-> FALSE, msg |-> m]
    ELSE IF ~IsMapping(m, x) THEN [raised |-> TRUE, msg |-> m]
    ELSE LET p == Append(x, Head(ks))
             m2 == IF p \in DOMAIN m THEN m ELSE Assign(m, p, value, kids)
         IN Walk(m2, p, Tail(ks), value, kids)

SetExtra(m, keys, value, kids) ==
    LET r1 == Walk(m, <<>>, SubSeq(keys, 1, Len(keys) - 1), DICT, EmptyMap)
    IN IF r1.raised THEN r1 ELSE Walk(r1.msg, <<>>, keys, value, kids)

\* ---------------------------------------------------------------- _msg_filler pieces
\* data.get(i, self.null): the entry is read and left in place
PopItemKeep(data, i) ==
    [item |-> IF i \in DOMAIN data THEN data[i] ELSE null,
     rest |-> data]

\* data.pop(i, self.null)
PopItem(data, i) ==
    [item |-> IF i \in DOMAIN data THEN data[i] ELSE null,
     rest |-> [x \in (DOMAIN data) \ {i} |-> data[x]]]

\* the strip test left out
StripSkipsNever(item) == FALSE

\* self.strip and item is self.null
StripSkips(item) == strip /\ item = null

\* i = self.remap.get(i, i) when self.remap is non-empty
RemapKey(i) == IF DOMAIN remap # {} /\ i \in DOMAIN remap THEN remap[i] ELSE i

\* the presence test left out: the leaf is always written
KeyUnsetAlways(m, p) == TRUE

\* msg.get(i, SENTINEL) is SENTINEL
KeyUnset(m, p) == p \notin DOMAIN m

\* msg[i] = OrderedDict()
AllocNode(m, p) == Assign(m, p, DICT, EmptyMap)

\* self.strip and emp
PruneBranch(emp) == strip /\ emp

Top == stack[Len(stack)]
AtEntry == pc = "fill" /\ stack # <<>> /\ Top.idx <= Len(Top.node)
Entry == Top.node[Top.idx]
SetTop(f) == [stack EXCEPT ![Len(stack)] = f]

\* ---------------------------------------------------------------- generate_msg pieces
\* the mapping arguments, in order
EMsgList(r) ==
    IF r.args.k = "map" THEN << r.args >>
    ELSE SelectSeq(r.args.v, LAMBDA i : i.k = "map")

RECURSIVE UpdateAll(_, _)
UpdateAll(d, ms) == IF ms = <<>> THEN d ELSE UpdateAll(Update(d, Head(ms).v), Tail(ms))

\* the two updates in the other order: arguments first, then self.aux
MergeDataAuxLast(r, a) == Update(UpdateAll(RecordDict(r), EMsgList(r)), a)

\* extramsg after the updates
MergeData(r, a) == UpdateAll(Update(RecordDict(r), a), EMsgList(r))

\* the rest values, native log items excluded
RestOf(data, r) == [x \in (DOMAIN data) \ (DOMAIN RecordDict(r)) |-> data[x]]

\* the non-mapping arguments
EArgs(r) == SelectSeq(r.args.v, LAMBDA i : i.k # "map")

\* ---------------------------------------------------------------- prep_aux
PrepAuxMap(a, r) ==
    LET t == Update(a, [x \in {auxmap.time} |-> Scalar("ts")])
    IN IF r.exc_info.k = "exc"
       THEN Update(t, [x \in {auxmap.exctype, auxmap.excvalue, auxmap.exctrace} |->
                         CASE x = auxmap.exctype -> Scalar(r.exc_info.v.type)
                           [] x = auxmap.excvalue -> TupleV(r.exc_info.v.args)
                           [] OTHER -> Scalar("trace")])
       ELSE t

\* ---------------------------------------------------------------- format pieces
\* the `if self.msg` shortcut left out
SkipBuildNever(m) == FALSE

\* if self.msg
SkipBuild(m) == DOMAIN m # {}

\* value assigned to self.msg['msg'] for a record with an exception
ExcMsg(a) ==
    IF a[auxmap.excvalue].v # <<>> THEN Scalar(a[auxmap.excvalue].v[1]) ELSE a[auxmap.exctype]

\* json.dumps: tuples and lists both become arrays, mappings objects
JsonOf(x) == CASE x.k \in {"tuple", "list"} -> [k |-> "array", v |-> x.v]
               [] x.k = "dict" -> [k |-> "object", v |-> ""]
               [] OTHER -> x
Dumps(m) == [k |-> "json", v |-> [p \in DOMAIN m |-> JsonOf(m[p])]]

\* ---------------------------------------------------------------- Init
Init ==
    /\ jsonmap \in JsonMaps
    /\ remap \in Remaps
    /\ strip \in BOOLEAN
    /\ extrakeys \in ExtraKeys
    /\ msg = EmptyMap
    /\ aux = EmptyMap
    /\ record = NoRecord
    /\ extramsg = EmptyMap
    /\ stack = <<>>
    /\ pc = "idle"
    /\ calls = 0

\* ---------------------------------------------------------------- actions
\* format(): entry and the `if self.msg` test
FormatEnter ==
    /\ pc = "idle"
    /\ calls < MaxCalls
    /\ \E r \in Records : record' = r
    /\ pc' = IF SkipBuild(msg) THEN "super" ELSE "prep_aux"
    /\ UNCHANGED <<config, msg, aux, extramsg, stack, calls>>

PrepAux ==
    /\ pc = "prep_aux"
    /\ aux' = PrepAuxMap(aux, record)
    /\ pc' = "merge"
    /\ UNCHANGED <<config, msg, record, extramsg, stack, calls>>

\* generate_msg up to the call of _msg_filler
Merge ==
    /\ pc = "merge"
    /\ extramsg' = MergeData(record, aux)
    /\ stack' = << [path |-> <<>>, node |-> jsonmap, idx |-> 1, empty |-> TRUE] >>
    /\ pc' = "fill"
    /\ UNCHANGED <<config, msg, aux, record, calls>>

\* _msg_filler loop body, else branch
FillLeaf ==
    /\ AtEntry
    /\ Entry.leaf
    /\ LET popped == PopItem(extramsg, Entry.key)
           p == Append(Top.path, RemapKey(Entry.key))
           write == ~StripSkips(popped.item) /\ KeyUnset(msg, p)
       IN /\ extramsg' = popped.rest
          /\ msg' = IF write THEN Assign(msg, p, popped.item, EmptyMap) ELSE msg
          /\ stack' = SetTop([Top EXCEPT !.idx = @ + 1,
                                         !.empty = IF write THEN FALSE ELSE @])
    /\ UNCHANGED <<config, aux, record, pc, calls>>

\* _msg_filler loop body, Mapping branch up to the recursive call
FillInterior ==
    /\ AtEntry
    /\ ~Entry.leaf
    /\ LET p == Append(Top.path, Entry.key)
       IN /\ msg' = AllocNode(msg, p)
          /\ stack' = Append(stack, [path |-> p, node |-> Entry.sub, idx |-> 1, empty |-> TRUE])
    /\ UNCHANGED <<config, aux, record, extramsg, pc, calls>>

\* return empty, and the caller's `if self.strip and emp: del msg[i]`
FillReturn ==
    /\ pc = "fill"
    /\ stack # <<>>
    /\ Top.idx > Len(Top.node)
    /\ IF Len(stack) = 1
       THEN /\ stack' = <<>>
            /\ pc' = "overflow"
            /\ msg' = msg
       ELSE LET caller == stack[Len(stack) - 1]
            IN /\ msg' = IF PruneBranch(Top.empty) THEN DelNode(msg, Top.path) ELSE msg
               /\ stack' = Append(SubSeq(stack, 1, Len(stack) - 2), [caller EXCEPT !.idx = @ + 1])
               /\ pc' = pc
    /\ UNCHANGED <<config, aux, record, extramsg, calls>>

\* generate_msg: the rest values and their placement under extrakeys
Overflow ==
    /\ pc = "overflow"
    /\ LET rest == RestOf(extramsg, record)
           r == SetExtra(msg, extrakeys, DICT, rest)
       IN /\ extramsg' = rest
          /\ IF DOMAIN rest = {}
             THEN msg' = msg /\ pc' = "args"
             ELSE msg' = r.msg /\ pc' = IF r.raised THEN "raised" ELSE "args"
    /\ UNCHANGED <<config, aux, record, stack, calls>>

\* generate_msg: the non-mapping arguments
ArgsOverflow ==
    /\ pc = "args"
    /\ IF record.args.k = "map" \/ EArgs(record) = <<>>
       THEN msg' = msg /\ pc' = "exc"
       ELSE LET r == SetExtra(msg, extrakeys \o argskey, ListV(EArgs(record)), EmptyMap)
            IN msg' = r.msg /\ pc' = IF r.raised THEN "raised" ELSE "exc"
    /\ extramsg' = EmptyMap
    /\ UNCHANGED <<config, aux, record, stack, calls>>

\* format(): exception message substitution
ExcSubst ==
    /\ pc = "exc"
    /\ IF record.exc_info.k = "exc"
       THEN /\ msg' = Assign(msg, <<"msg">>, ExcMsg(aux), EmptyMap)
            /\ record' = [record EXCEPT !.exc_info = None]
       ELSE UNCHANGED <<msg, record>>
    /\ pc' = "dumps"
    /\ UNCHANGED <<config, aux, extramsg, stack, calls>>

\* format(): record.msg = dumps(self.msg); record.args = ()
DumpsStep ==
    /\ pc = "dumps"
    /\ record' = [record EXCEPT !.msg = Dumps(msg), !.args = TupleV(<<>>)]
    /\ pc' = "super"
    /\ UNCHANGED <<config, msg, aux, extramsg, stack, calls>>

\* return super().format(record)
SuperFormat ==
    /\ pc = "super"
    /\ pc' = "idle"
    /\ calls' = calls + 1
    /\ record' = NoRecord
    /\ UNCHANGED <<config, msg, aux, extramsg, stack>>

\* AttributeError out of _set_extra leaves format()
Propagate ==
    /\ pc = "raised"
    /\ pc' = "idle"
    /\ calls' = calls + 1
    /\ record' = NoRecord
    /\ extramsg' = EmptyMap
    /\ UNCHANGED <<config, msg, aux, stack>>

Next ==
    \/ FormatEnter
    \/ PrepAux
    \/ Merge
    \/ FillLeaf
    \/ FillInterior
    \/ FillReturn
    \/ Overflow
    \/ ArgsOverflow
    \/ ExcSubst
    \/ DumpsStep
    \/ SuperFormat
    \/ Propagate

Spec == Init /\ [][Next]_vars

TypeOK == pc \in {"idle", "prep_aux", "merge", "fill", "overflow", "args", "exc", "dumps", "super", "raised"}

\* ================================================================ properties
\* ------------------------------------------------ helpers of the properties
Last(p) == p[Len(p)]

\* the key paths of the leaves of a schema
RECURSIVE SchemaLeafPaths(_, _)
SchemaLeafPaths(node, prefix) ==
    UNION { IF node[n].leaf THEN { Append(prefix, node[n].key) }
            ELSE SchemaLeafPaths(node[n].sub, Append(prefix, node[n].key)) : n \in 1..Len(node) }

\* the key paths of the interior nodes of a schema
RECURSIVE SchemaNodePaths(_, _)
SchemaNodePaths(node, prefix) ==
    UNION { IF node[n].leaf THEN {}
            ELSE { Append(prefix, node[n].key) }
                 \cup SchemaNodePaths(node[n].sub, Append(prefix, node[n].key)) : n \in 1..Len(node) }

LeafKeys == { Last(p) : p \in SchemaLeafPaths(jsonmap, <<>>) }

\* where the leaf at schema path p is written: same node, remapped name
OutPath(p) == Append(SubSeq(p, 1, Len(p) - 1), RemapKey(Last(p)))

\* the source mapping M handed to _msg_filler in the running call
SourceM == MergeData(record, aux)

\* keys defined by the structured (mapping) arguments of record r
StructKeys(r) == UNION { DOMAIN (EMsgList(r)[n].v) : n \in 1..Len(EMsgList(r)) }

\* value of key in the last structured argument that defines it
LastArgValue(r, key) ==
    LET ms == EMsgList(r)
        n == CHOOSE j \in 1..Len(ms) :
                 /\ key \in DOMAIN ms[j].v
                 /\ \A h \in (j + 1)..Len(ms) : key \notin DOMAIN ms[h].v
    IN ms[n].v[key]

\* the step about to run visits a leaf, and the place it would write
LeafStep == AtEntry /\ Entry.leaf
LeafOut == Append(Top.path, RemapKey(Entry.key))
LeafWrites == LeafStep /\ LeafOut \notin DOMAIN msg /\ LeafOut \in DOMAIN msg'

\* the step about to run returns from the _msg_filler call of an interior node
NodeReturn == pc = "fill" /\ Len(stack) > 1 /\ Top.idx > Len(Top.node)

\* no leaf is written under the name of an interior node of the same level
NoLeafNodeClash ==
    \A p \in SchemaLeafPaths(jsonmap, <<>>) : OutPath(p) \notin SchemaNodePaths(jsonmap, <<>>)

\* ------------------------------------------------ C1
\* C1, first half: with strip disabled, when _msg_filler has run no leaf key of
\* the schema is left in the source mapping.
C1_Removed == (pc = "overflow" /\ ~strip) => (DOMAIN extramsg) \cap LeafKeys = {}

\* C1 as stated: with strip disabled one run of _msg_filler removes every schema
\* leaf key from M, and the value written for a leaf is the null sentinel if and
\* only if the leaf's key was absent from M.
C1_Original ==
    /\ []C1_Removed
    /\ [][(LeafWrites /\ ~strip) => (msg'[LeafOut] = null <=> Entry.key \notin DOMAIN SourceM)]_vars

\* C1 amended: with strip disabled one run of _msg_filler removes every schema
\* leaf key from M; a leaf whose key is absent from M is written as the null
\* sentinel, and a leaf written with another value had its key in M and holds
\* M's value.  (A key present in M with the sentinel as its value is written as
\* the sentinel too.)
C1_Consumes ==
    /\ []C1_Removed
    /\ [][(LeafWrites /\ ~strip) =>
            /\ Entry.key \notin DOMAIN SourceM => msg'[LeafOut] = null
            /\ msg'[LeafOut] # null =>
                 (Entry.key \in DOMAIN SourceM /\ msg'[LeafOut] = SourceM[Entry.key])]_vars

\* _msg_filler has run without strip on a record whose msg is the sentinel: the
\* key was in M and the leaf holds the sentinel; user was absent and holds it too
C1_Witness ==
    /\ pc = "overflow" /\ ~strip /\ jsonmap = JsonExtraLeaf /\ remap = RemapNone
    /\ record.msg = null /\ msg[<<"msg">>] = null
    /\ "user" \notin StructKeys(record) /\ msg[<<"user">>] = null
    /\ "msg" \notin DOMAIN extramsg

\* ------------------------------------------------ C2
\* C2 as stated: with strip enabled, when the _msg_filler call of an interior
\* node returns and some leaf anywhere below that node holds a value, the call
\* reports that something was set and the node stays in the output tree.
C2_SubtreeKept ==
    [][(NodeReturn /\ strip /\ \E q \in Below(msg, Top.path) : msg[q].k # "dict")
         => (~Top.empty /\ Top.path \in DOMAIN msg')]_vars

\* ------------------------------------------------ C3
\* C3 as stated: after a complete formatting pass with strip enabled no key of
\* the output tree holds the null sentinel and no interior node is empty.
C3_Original ==
    (pc = "dumps" /\ strip) =>
        /\ \A p \in DOMAIN msg : msg[p] # null
        /\ \A p \in DOMAIN msg : msg[p].k = "dict" => Below(msg, p) # {}

\* C3 amended: with strip enabled, after schema resolution and overflow
\* collection the only keys that hold the null sentinel are overflow entries
\* under the overflow path (overflow values are not stripped), and, unless the
\* remap table writes a leaf under the name of an interior node of its level,
\* no interior node of the output tree is empty.
C3_StripInvariant ==
    (pc = "exc" /\ strip) =>
        /\ \A p \in DOMAIN msg : msg[p] = null => (IsPrefix(extrakeys, p) /\ p # extrakeys)
        /\ NoLeafNodeClash => \A p \in DOMAIN msg : msg[p].k = "dict" => Below(msg, p) # {}

\* a strip pass over the default schema in which the msg leaf was skipped, the
\* exception branch was pruned and the user leaf kept its branch
C3_Witness ==
    /\ pc = "exc" /\ strip /\ jsonmap = JsonDefault /\ remap = RemapNone
    /\ <<"msg">> \notin DOMAIN msg
    /\ <<"extra", "exception">> \notin DOMAIN msg
    /\ <<"extra", "user">> \in DOMAIN msg

\* ------------------------------------------------ C4
\* C4 as stated: no step of a pass replaces the value stored under a key that
\* is already set in the output tree.
C4_Original == [][\A p \in (DOMAIN msg) \cap (DOMAIN msg') : msg'[p] = msg[p]]_vars

\* C4 amended: a leaf write (also under a remapped name) and the two overflow
\* placements never replace or remove a key that is already set; the allocation
\* of an interior node and the exception message substitution assign
\* unconditionally and may replace one.
C4_FirstWriterWins ==
    [][(LeafStep \/ pc \in {"overflow", "args"})
         => \A p \in DOMAIN msg : p \in DOMAIN msg' /\ msg'[p] = msg[p]]_vars

\* the msg leaf, remapped to "time", found "time" already set and left it alone
C4_Witness ==
    /\ pc = "fill" /\ ~strip /\ jsonmap = JsonDefault /\ remap = RemapSome
    /\ record.msg = Scalar("hello")
    /\ "msg" \notin DOMAIN extramsg
    /\ <<"time">> \in DOMAIN msg /\ msg[<<"time">>] # Scalar("hello")
    /\ <<"msg">> \notin DOMAIN msg

\* ------------------------------------------------ C5
\* C5 as stated, for the plain configurations (strip disabled, no remap table):
\* after schema resolution and overflow collection every auxiliary key and every
\* structured-argument key that is not a native record field is in the output
\* tree, under the schema or under the overflow path; none is lost.
C5_OverflowComplete ==
    (pc \in {"args", "raised"} /\ ~strip /\ remap = RemapNone) =>
        \A key \in ((DOMAIN aux) \cup StructKeys(record)) \ DOMAIN RecordDict(record) :
            \E p \in DOMAIN msg : Last(p) = key

\* ------------------------------------------------ C6
\* C6 as stated: overflow placement never raises, and after it every overflow
\* entry is stored under the overflow path.
C6_NeverRaises ==
    /\ pc # "raised"
    /\ pc = "args" =>
         \A key \in DOMAIN extramsg :
             /\ Append(extrakeys, key) \in DOMAIN msg
             /\ msg[Append(extrakeys, key)] = extramsg[key]

\* ------------------------------------------------ C7
\* C7 as stated: after formatting a record that carries an exception, the entry
\* the schema's "msg" leaf produced, wherever it is nested and whatever its
\* output name, holds the first constructor argument, or the type name when
\* there are no arguments.
C7_MsgLeaf ==
    (pc = "dumps" /\ auxmap.exctype \in DOMAIN aux) =>
        \A p \in SchemaLeafPaths(jsonmap, <<>>) :
            (/\ Last(p) = "msg"
             /\ OutPath(p) \in DOMAIN msg
             /\ OutPath(p) \notin SchemaNodePaths(jsonmap, <<>>)
             /\ \A q \in SchemaLeafPaths(jsonmap, <<>>) : OutPath(q) = OutPath(p) => q = p)
            => msg[OutPath(p)] = ExcMsg(aux)

\* ------------------------------------------------ C8
\* C8 as stated: whenever the underlying text-formatting step runs, in the first
\* and in every later call, record.msg is the serialized output tree and
\* record.args is empty.
C8_TextLayerInput ==
    pc = "super" => (record.msg = Dumps(msg) /\ record.args = TupleV(<<>>))

\* ------------------------------------------------ C9
\* C9 as stated: when the auxiliary map and a structured argument define the
\* same schema leaf key, the value written for the leaf is the auxiliary map's.
C9_Original ==
    [][(LeafWrites /\ Entry.key \in (DOMAIN aux) \cap StructKeys(record)
                   /\ Entry.key \in DOMAIN extramsg)
         => msg'[LeafOut] = aux[Entry.key]]_vars

\* C9 amended: the auxiliary map is merged before the structured arguments, so
\* when both define the same schema leaf key the value written for the leaf is
\* the one of the last structured argument that defines it.
C9_ArgumentWins ==
    [][(LeafWrites /\ Entry.key \in (DOMAIN aux) \cap StructKeys(record)
                   /\ Entry.key \in DOMAIN extramsg)
         => msg'[LeafOut] = LastArgValue(record, Entry.key)]_vars

\* the time leaf holds the argument's "t2" although self.aux holds the timestamp
C9_Witness ==
    /\ pc = "overflow" /\ jsonmap = JsonDefault /\ remap = RemapNone
    /\ "time" \in DOMAIN aux /\ aux["time"] = Scalar("ts")
    /\ "time" \in StructKeys(record)
    /\ <<"time">> \in DOMAIN msg /\ msg[<<"time">>] = Scalar("t2")

\* ------------------------------------------------ C10
\* C10 as stated: after the first format call has ended no later call runs the
\* auxiliary preprocessing or generate_msg, and the output tree never changes.
C10_Original ==
    [][calls >= 1 => (msg' = msg /\ aux' = aux /\ pc' \in {"idle", "super"})]_vars

\* C10 amended: a format call that finds the output tree non-empty skips the
\* auxiliary preprocessing, schema resolution and overflow collection and
\* leaves the tree exactly as it is, and so does every later call; a call that
\* finds the tree empty (the first, or one after a pass that placed nothing)
\* builds it.
C10_FormatOnce ==
    [][(pc \in {"idle", "super"} /\ DOMAIN msg # {})
         => (msg' = msg /\ aux' = aux /\ pc' \in {"idle", "super"})]_vars

\* a later call on its way to the text layer with the tree of an earlier call
C10_Witness ==
    /\ pc = "super" /\ calls >= 1 /\ DOMAIN msg # {}
    /\ record.msg = Scalar("hello")
    /\ record.args # TupleV(<<>>)
====
